---- MODULE Spec2Model ----
(***************************************************************************)
(* A model of mcp_pandas: a process-wide DataFrame `df`, the loader        *)
(* load_data, the entry point main, and the MCP request handlers           *)
(* (list_resources, read_resource, list_prompts, get_prompt, list_tools,   *)
(* call_tool) of src/src/mcp_pandas/server.py.                             *)
(*                                                                         *)
(* Python strings are TLA+ strings; None is the optional value NoneVal.    *)
(* pandas, matplotlib and the file system are the environment: what a      *)
(* parser or a renderer answers is chosen nondeterministically among the   *)
(* outcomes the library can produce for that call.                         *)
(***************************************************************************)
EXTENDS Integers, Sequences, FiniteSets, TLC

VARIABLES
    df,     \* the module global `df`: bound or not, and the table it is bound to
    phase,  \* where the process is: boot, imported, serving, aborted
    req,    \* the call being answered (Idle when none is outstanding)
    res,    \* what that call returned or raised
    lib     \* the delegated library call made while answering it

vars == <<df, phase, req, res, lib>>

----------------------------------------------------------------------------
(* Bounds of the explored inputs *)

\* rows of a loaded table
MaxRows == 2
\* bytes a rendered PNG carries after its 8-byte signature
MaxPngTail == 2

----------------------------------------------------------------------------
(* Python strings *)

Char(s, i) == SubSeq(s, i, i)

StartsWith(s, p) == Len(s) >= Len(p) /\ SubSeq(s, 1, Len(p)) = p

\* str.find from position i (1-based); 0 when absent
RECURSIVE FindFrom(_, _, _)
FindFrom(s, sub, i) ==
    IF i + Len(sub) - 1 > Len(s) THEN 0
    ELSE IF SubSeq(s, i, i + Len(sub) - 1) = sub THEN i
    ELSE FindFrom(s, sub, i + 1)

\* str.rfind of a single character (1-based); 0 when absent
RECURSIVE RFindChar(_, _, _)
RFindChar(s, c, i) ==
    IF i = 0 THEN 0
    ELSE IF Char(s, i) = c THEN i
    ELSE RFindChar(s, c, i - 1)

\* str.replace(old, new): every non-overlapping occurrence, left to right
RECURSIVE Replace(_, _, _)
Replace(s, old, new) ==
    LET i == FindFrom(s, old, 1) IN
    IF i = 0 THEN s
    ELSE SubSeq(s, 1, i - 1) \o new
         \o Replace(SubSeq(s, i + Len(old), Len(s)), old, new)

UpperChars == "ABCDEFGHIJKLMNOPQRSTUVWXYZ"
LowerChars == "abcdefghijklmnopqrstuvwxyz"

LowerChar(c) ==
    LET i == FindFrom(UpperChars, c, 1) IN
    IF i > 0 THEN Char(LowerChars, i) ELSE c

\* str.lower
RECURSIVE Lower(_)
Lower(s) == IF s = "" THEN "" ELSE LowerChar(Char(s, 1)) \o Lower(Tail(s))

\* Optional values: arguments.get(key) is a string or None
NoneVal == [some |-> FALSE, s |-> ""]
Some(s) == [some |-> TRUE, s |-> s]

\* Python truthiness of an optional string: None and "" are falsy
Truthy(o) == o.some /\ o.s # ""

\* how an f-string renders an optional string
Str(o) == IF o.some THEN o.s ELSE "None"

----------------------------------------------------------------------------
(* Tables: what a pandas parser can hand back *)

Range(f) == {f[i] : i \in DOMAIN f}

\* Numeric cells are held in sixteenths (1 stands for 0.0625), which binary
\* floating point represents exactly, so a mean is the exact quotient.
NumericCells == {-3, 1, 2}

\* Column "A" is parsed as float64 and column "B" as object (strings).
\* A reader hands back the frame without columns or rows, or a frame of one
\* or two columns and 1..MaxRows rows.
NumericColumns(n) == {[dtype |-> "float64", vals |-> v] : v \in [1..n -> NumericCells]}
ObjectColumns(n) == {[dtype |-> "object", vals |-> [i \in 1..n |-> "s"]]}
ColumnPool(name, n) == IF name = "A" THEN NumericColumns(n) ELSE ObjectColumns(n)

ColumnSeqs == {<<"A">>, <<"B">>, <<"A", "B">>, <<"B", "A">>}

EmptyTable == [columns |-> <<>>, nrows |-> 0, cols |-> [c \in {} |-> 0]]

Tables ==
    {EmptyTable} \cup
    UNION {UNION {{[columns |-> cs, nrows |-> n, cols |-> f] :
                      f \in {g \in [Range(cs) -> ColumnPool("A", n) \cup ColumnPool("B", n)] :
                                \A c \in Range(cs) : g[c] \in ColumnPool(c, n)}} :
                  cs \in ColumnSeqs} :
           n \in 1..MaxRows}

\* `x in df.columns`; None is never a column label
InColumns(o, t) == o.some /\ o.s \in Range(t.columns)

\* str(df.shape): the tuple (rows, columns)
ShapeStr(t) == "(" \o ToString(t.nrows) \o ", " \o ToString(Len(t.columns)) \o ")"

\* The module global before and after `df = ...`
UnboundDf == [bound |-> FALSE, table |-> EmptyTable]
BoundDf(t) == [bound |-> TRUE, table |-> t]

----------------------------------------------------------------------------
(* Calls, results and the library-call record *)

Idle == [op |-> "idle"]
NoResult == [kind |-> "idle", exc |-> "", msg |-> "", none |-> FALSE, text |-> "",
             items |-> <<>>, listing |-> <<>>]

ReturnNone == [NoResult EXCEPT !.kind = "return", !.none = TRUE]
ReturnText(s) == [NoResult EXCEPT !.kind = "return", !.text = s]
ReturnItems(its) == [NoResult EXCEPT !.kind = "return", !.items = its]
ReturnListing(l) == [NoResult EXCEPT !.kind = "return", !.listing = l]
Raise(exc, msg) == [NoResult EXCEPT !.kind = "raise", !.exc = exc, !.msg = msg]

\* types.TextContent and types.ImageContent
TextContent(s) == [type |-> "text", text |-> s, mimeType |-> "", data |-> ""]
ImageContent(mime, data) == [type |-> "image", text |-> "", mimeType |-> mime, data |-> data]

NoLib == [fn |-> "none", ok |-> FALSE, png |-> <<>>]
LibCall(fn, ok, png) == [fn |-> fn, ok |-> ok, png |-> png]

----------------------------------------------------------------------------
(* load_data *)

\* The data paths tried: argparse hands main a string, or None when
\* --data-path is not given.
DataPaths == {"d.csv", "D.CSV", "d.Json", "d.xls", "d.XLSX", "d.tar.json",
              "d.txt", "csv", ".csv", "x.csv/d", ""}

RECURSIVE StripTrailingSlashes(_)
StripTrailingSlashes(s) ==
    IF Len(s) > 1 /\ Char(s, Len(s)) = "/"
    THEN StripTrailingSlashes(SubSeq(s, 1, Len(s) - 1))
    ELSE s

\* Path(p).name: the final component
PathName(p) ==
    LET q == StripTrailingSlashes(p)
        i == RFindChar(q, "/", Len(q))
    IN SubSeq(q, i + 1, Len(q))

\* Path(p).suffix: from the last dot of the name, unless that dot leads or
\* ends the name
Suffix(p) ==
    LET name == PathName(p)
        i == RFindChar(name, ".", Len(name))
    IN IF 1 < i /\ i < Len(name) THEN SubSeq(name, i, Len(name)) ELSE ""

SuffixLower_CaseSensitive(p) == Suffix(p)

\* Path(data_path).suffix.lower()
SuffixLower(p) == Lower(Suffix(p))

\* file_extension for each of the paths tried (computed once per path)
FileExtensions == [p \in DataPaths |-> SuffixLower(p)]
FileExtension(p) == FileExtensions[p]

\* the if/elif chain of load_data: the pandas reader called, "" for none
ParserFor(ext) ==
    IF ext = ".csv" THEN "read_csv"
    ELSE IF ext = ".json" THEN "read_json"
    ELSE IF ext \in {".xls", ".xlsx"} THEN "read_excel"
    ELSE ""

\* What a pandas reader answers: a whole table, or it raises (missing or
\* unreadable file, malformed content).
ParseOutcomes ==
    {[ok |-> FALSE, table |-> EmptyTable]} \cup {[ok |-> TRUE, table |-> t] : t \in Tables}

\* load_data(data_path) run from the state d, the reader answering `parsed`:
\* the value of df afterwards, what the call returns or raises, and the
\* reader call made.
LoadDataResult(path, parsed, d) ==
    IF ~path.some
    THEN [df |-> d, res |-> Raise("TypeError", "expected str, bytes or os.PathLike object, not NoneType"),
          lib |-> NoLib]
    ELSE LET ext == FileExtension(path.s)
             parser == ParserFor(ext)
         IN IF parser = ""
            THEN [df |-> d, res |-> Raise("ValueError", "Unsupported file format: " \o ext),
                  lib |-> NoLib]
            ELSE IF parsed.ok
            THEN [df |-> BoundDf(parsed.table), res |-> ReturnNone,
                  lib |-> LibCall(parser, TRUE, <<>>)]
            ELSE [df |-> d, res |-> Raise("LoadError", "the reader failed"),
                  lib |-> LibCall(parser, FALSE, <<>>)]

\* The inputs of a load: a path (or None) and the reader's answer, which
\* matters only when a reader is called.
ReaderNotCalled(i) ==
    (~i.path.some \/ ParserFor(FileExtension(i.path.s)) = "") => ~i.parsed.ok

LoadInputs ==
    {[path |-> NoneVal, parsed |-> [ok |-> FALSE, table |-> EmptyTable]]} \cup
    UNION {{[path |-> Some(p), parsed |-> o] :
               o \in {q \in ParseOutcomes : ReaderNotCalled([path |-> Some(p), parsed |-> q])}} :
           p \in DataPaths}

----------------------------------------------------------------------------
(* Resources, prompts and tool descriptors *)

\* AnyUrl values: str(uri) is scheme://host/path, and uri.scheme its scheme
Uris ==
    {[scheme |-> sc, host |-> h, path |-> pa] :
        sc \in {"memo", "http", "file"},
        h \in {"shape", "other", "SHAPE", ""},
        pa \in {"", "/", "/memo://shape"}}

UriStr(u) == u.scheme \o "://" \o u.host \o u.path

\* handle_list_resources
ListResourcesResult ==
    ReturnListing(<<[uri |-> "memo://shape", name |-> "DataFrame Shape",
                     mimeType |-> "text/plain"]>>)

ReadResourceResult_PathFirst(uri, d) ==
    LET path == Replace(UriStr(uri), "memo://", "") IN
    IF path = "" \/ path # "shape"
    THEN Raise("ValueError", "Unknown resource path: " \o path)
    ELSE IF uri.scheme # "memo"
    THEN Raise("ValueError", "Unsupported URI scheme: " \o uri.scheme)
    ELSE IF ~d.bound THEN Raise("NameError", "name 'df' is not defined")
    ELSE ReturnText(ShapeStr(d.table))

\* handle_read_resource
ReadResourceResult(uri, d) ==
    IF uri.scheme # "memo"
    THEN Raise("ValueError", "Unsupported URI scheme: " \o uri.scheme)
    ELSE LET path == Replace(UriStr(uri), "memo://", "") IN
         IF path = "" \/ path # "shape"
         THEN Raise("ValueError", "Unknown resource path: " \o path)
         ELSE IF ~d.bound THEN Raise("NameError", "name 'df' is not defined")
         ELSE ReturnText(ShapeStr(d.table))

\* handle_list_prompts
ListPromptsResult == ReturnListing(<<>>)

\* handle_get_prompt: logs and falls off the end
GetPromptResult == ReturnNone

\* handle_list_tools
ListToolsResult ==
    ReturnListing(<<[name |-> "plot", properties |-> <<"kind", "x", "y", "title">>,
                     required |-> <<"kind">>],
                    [name |-> "average", properties |-> <<"column">>,
                     required |-> <<"column">>]>>)

----------------------------------------------------------------------------
(* Rendering and transport encoding of a plot *)

PngSignature == <<137, 80, 78, 71, 13, 10, 26, 10>>

RECURSIVE ByteSeqs(_)
ByteSeqs(n) ==
    IF n = 0 THEN {<<>>}
    ELSE ByteSeqs(n - 1) \cup
         {Append(b, c) : b \in {q \in ByteSeqs(n - 1) : Len(q) = n - 1}, c \in {0, 255}}

\* what savefig(format="png") can write
PngOutputs == {PngSignature \o t : t \in ByteSeqs(MaxPngTail)}

\* What df.plot(...) then savefig answer: PNG bytes, or an exception
RenderOutcomes ==
    {[ok |-> FALSE, png |-> <<>>]} \cup {[ok |-> TRUE, png |-> b] : b \in PngOutputs}

HasNumericColumn(t, names) == \E c \in names : t.cols[c].dtype = "float64"

\* Calls pandas always refuses: a scatter plot without x and y, and a plot
\* with no numeric column to draw.
RenderMustRaise(t, kind, useXY, y) ==
    \/ kind = "scatter" /\ ~useXY
    \/ ~HasNumericColumn(t, IF useXY THEN {y} ELSE Range(t.columns))

B64Chars == "ABCDEFGHIJKLMNOPQRSTUVWXYZabcdefghijklmnopqrstuvwxyz0123456789+/"
B64Char(n) == Char(B64Chars, n + 1)

RECURSIVE B64Encode_NoPadding(_)
B64Encode_NoPadding(b) ==
    IF Len(b) = 0 THEN ""
    ELSE IF Len(b) = 1
    THEN B64Char(b[1] \div 4) \o B64Char((b[1] % 4) * 16)
    ELSE IF Len(b) = 2
    THEN B64Char(b[1] \div 4) \o B64Char((b[1] % 4) * 16 + b[2] \div 16)
         \o B64Char((b[2] % 16) * 4)
    ELSE B64Char(b[1] \div 4) \o B64Char((b[1] % 4) * 16 + b[2] \div 16)
         \o B64Char((b[2] % 16) * 4 + b[3] \div 64) \o B64Char(b[3] % 64)
         \o B64Encode_NoPadding(SubSeq(b, 4, Len(b)))

\* base64.b64encode(data).decode('utf-8')
RECURSIVE B64Encode(_)
B64Encode(b) ==
    IF Len(b) = 0 THEN ""
    ELSE IF Len(b) = 1
    THEN B64Char(b[1] \div 4) \o B64Char((b[1] % 4) * 16) \o "=="
    ELSE IF Len(b) = 2
    THEN B64Char(b[1] \div 4) \o B64Char((b[1] % 4) * 16 + b[2] \div 16)
         \o B64Char((b[2] % 16) * 4) \o "="
    ELSE B64Char(b[1] \div 4) \o B64Char((b[1] % 4) * 16 + b[2] \div 16)
         \o B64Char((b[2] % 16) * 4 + b[3] \div 64) \o B64Char(b[3] % 64)
         \o B64Encode(SubSeq(b, 4, Len(b)))

\* the encoding of each PNG the renderer can write (computed once per PNG)
B64Encoded == [b \in PngOutputs |-> B64Encode(b)]

----------------------------------------------------------------------------
(* The mean of a column and its text *)

RECURSIVE SeqSum(_)
SeqSum(q) == IF q = <<>> THEN 0 ELSE Head(q) + SeqSum(Tail(q))

RoundThousandths_Truncate(num, den) ==
    LET q == (1000 * num) \div den IN
    IF q < 0 /\ q * den # 1000 * num THEN q + 1 ELSE q

\* round(num/den, 3), in thousandths: the nearest, a tie going to the even one
RoundThousandths(num, den) ==
    LET q == (1000 * num) \div den
        r == 1000 * num - q * den
    IN IF 2 * r < den THEN q
       ELSE IF 2 * r > den THEN q + 1
       ELSE IF q % 2 = 0 THEN q ELSE q + 1

RECURSIVE StripZeros(_)
StripZeros(s) ==
    IF Len(s) > 1 /\ Char(s, Len(s)) = "0" THEN StripZeros(SubSeq(s, 1, Len(s) - 1)) ELSE s

\* str() of the float k/1000: shortest digits, at least one after the point
FormatThousandths(k) ==
    LET a == IF k < 0 THEN -k ELSE k
        frac == a % 1000
        digits == (IF frac < 10 THEN "00" ELSE IF frac < 100 THEN "0" ELSE "")
                  \o ToString(frac)
    IN (IF k < 0 THEN "-" ELSE "") \o ToString(a \div 1000) \o "." \o StripZeros(digits)

\* round(df[column].mean(), 3) as text; the mean of no rows is nan, and
\* pandas raises on a column of strings
MeanResult(col) ==
    IF Len(col.vals) = 0 THEN [ok |-> TRUE, text |-> "nan"]
    ELSE IF col.dtype = "object" THEN [ok |-> FALSE, text |-> ""]
    ELSE [ok |-> TRUE,
          text |-> FormatThousandths(RoundThousandths(SeqSum(col.vals), 16 * Len(col.vals)))]

----------------------------------------------------------------------------
(* call_tool *)

ToolNames == {"plot", "average", "describe"}

Opt(S) == {NoneVal} \cup {Some(v) : v \in S}

\* a dict holding the keys whose value is given
DictOf(pairs) ==
    [k \in {q \in DOMAIN pairs : pairs[q].some} |-> pairs[k].s]

PlotArgMaps ==
    {DictOf([kind |-> k, x |-> x, y |-> y, title |-> t]) :
        k \in Opt({"bar", "line", "scatter", "pie"}),
        x \in Opt({"", "A", "B"}),
        y \in Opt({"", "A", "B"}),
        t \in Opt({"T"})}

AverageArgMaps == {DictOf([column |-> c]) : c \in Opt({"A", "B"})}

\* `arguments`: None, or a dict (the empty one among them)
Arguments ==
    {[present |-> FALSE, map |-> DictOf([kind |-> NoneVal])]} \cup
    {[present |-> TRUE, map |-> m] : m \in PlotArgMaps \cup AverageArgMaps}

\* arguments.get(key) and arguments.get(key, default)
Get(map, key) == IF key \in DOMAIN map THEN Some(map[key]) ELSE NoneVal
GetOr(map, key, default) == IF key \in DOMAIN map THEN map[key] ELSE default

ArgumentsMissing_NoneOnly(args) == ~args.present

\* `not arguments`: None and the empty dict
ArgumentsMissing(args) == ~args.present \/ DOMAIN args.map = {}

PlotKinds == {"bar", "line", "scatter"}

\* What the body of the try computes: a returned value, or an exception
\* with its message.
Returned(r, l) == [raised |-> FALSE, msg |-> "", res |-> r, lib |-> l]
Raised(m, l) == [raised |-> TRUE, msg |-> m, res |-> NoResult, lib |-> l]

DfUndefined == Raised("name 'df' is not defined", NoLib)

\* does the plot branch reach df.plot with x and y?
UsesXY(map) == Truthy(Get(map, "x")) /\ Truthy(Get(map, "y"))

\* The plot branch
PlotBody(map, d, rendered) ==
    LET kind == GetOr(map, "kind", "bar")
        x == Get(map, "x")
        y == Get(map, "y")
    IN IF kind \notin PlotKinds
       THEN Raised("Unsupported plot type: " \o kind, NoLib)
       ELSE IF ~d.bound THEN DfUndefined
       ELSE IF UsesXY(map) /\ (~InColumns(x, d.table) \/ ~InColumns(y, d.table))
       THEN Raised("Columns '" \o Str(x) \o "' or '" \o Str(y) \o "' not found in DataFrame",
                   NoLib)
       ELSE IF ~rendered.ok
       THEN Raised("the plot could not be drawn", LibCall("plot", FALSE, <<>>))
       ELSE Returned(ReturnItems(<<TextContent("Generated " \o kind \o " plot"),
                                   ImageContent("image/png", B64Encoded[rendered.png])>>),
                     LibCall("plot", TRUE, rendered.png))

\* The average branch
AverageBody(map, d) ==
    LET column == Get(map, "column") IN
    IF ~d.bound THEN DfUndefined
    ELSE IF ~InColumns(column, d.table)
    THEN Raised("Column '" \o Str(column) \o "' not found in DataFrame", NoLib)
    ELSE LET m == MeanResult(d.table.cols[column.s]) IN
         IF ~m.ok
         THEN Raised("Could not convert string to numeric", LibCall("mean", FALSE, <<>>))
         ELSE Returned(ReturnItems(<<TextContent("Average of " \o column.s \o ": " \o m.text)>>),
                       LibCall("mean", TRUE, <<>>))

\* The body of the try: a name that is neither tool falls through to the
\* end of the function, which returns None.
CallToolBody(name, args, d, rendered) ==
    IF ArgumentsMissing(args) THEN Raised("Missing arguments", NoLib)
    ELSE IF name = "plot" THEN PlotBody(args.map, d, rendered)
    ELSE IF name = "average" THEN AverageBody(args.map, d)
    ELSE Returned(ReturnNone, NoLib)

\* handle_call_tool: the try, and the except that turns any exception into
\* one text item
CallToolResult(name, args, d, rendered) ==
    LET b == CallToolBody(name, args, d, rendered) IN
    IF b.raised
    THEN [res |-> ReturnItems(<<TextContent("Error: " \o b.msg)>>), lib |-> b.lib]
    ELSE [res |-> b.res, lib |-> b.lib]

\* Whether the call reaches df.plot, and the answers the renderer can give
ReachesPlot(name, args, d) ==
    /\ ~ArgumentsMissing(args)
    /\ name = "plot"
    /\ GetOr(args.map, "kind", "bar") \in PlotKinds
    /\ d.bound
    /\ UsesXY(args.map) =>
           InColumns(Get(args.map, "x"), d.table) /\ InColumns(Get(args.map, "y"), d.table)

RenderAnswers(name, args, d) ==
    IF ~ReachesPlot(name, args, d) THEN {[ok |-> FALSE, png |-> <<>>]}
    ELSE IF RenderMustRaise(d.table, GetOr(args.map, "kind", "bar"), UsesXY(args.map),
                            GetOr(args.map, "y", ""))
    THEN {[ok |-> FALSE, png |-> <<>>]}
    ELSE RenderOutcomes

----------------------------------------------------------------------------
(* The process *)

Init ==
    /\ df = UnboundDf
    /\ phase = "boot"
    /\ req = Idle
    /\ res = NoResult
    /\ lib = NoLib

\* What main does once load_data is over: an exception leaves main and ends
\* the process, a return goes on to the stdio loop.
PhaseAfterLoad_IgnoresFailure(r) == "loaded"

PhaseAfterLoad(r) == IF r.kind = "raise" THEN "aborted" ELSE "loaded"

\* __init__.main and server.main up to the stdio loop: parse --data-path,
\* call load_data.
MainLoad(i) ==
    /\ phase = "boot"
    /\ LET r == LoadDataResult(i.path, i.parsed, df) IN
        /\ df' = r.df
        /\ res' = r.res
        /\ lib' = r.lib
        /\ phase' = PhaseAfterLoad(r.res)
    /\ req' = [op |-> "main", path |-> i.path]

\* server.main: enter stdio_server and server.run, which serves requests
MainServe ==
    /\ phase = "loaded"
    /\ phase' = "serving"
    /\ req' = Idle
    /\ res' = NoResult
    /\ lib' = NoLib
    /\ UNCHANGED df

\* The module is imported and its functions are called directly, as the
\* tests do.
Import ==
    /\ phase = "boot"
    /\ phase' = "imported"
    /\ UNCHANGED <<df, req, res, lib>>

CanCall == phase \in {"serving", "imported"} /\ req = Idle

\* load_data called directly
LoadData(i) ==
    /\ phase = "imported"
    /\ req = Idle
    /\ LET r == LoadDataResult(i.path, i.parsed, df) IN
        /\ df' = r.df
        /\ res' = r.res
        /\ lib' = r.lib
    /\ req' = [op |-> "load_data", path |-> i.path]
    /\ UNCHANGED phase

HandleListResources ==
    /\ CanCall
    /\ req' = [op |-> "list_resources"]
    /\ res' = ListResourcesResult
    /\ lib' = NoLib
    /\ UNCHANGED <<df, phase>>

HandleReadResource(uri) ==
    /\ CanCall
    /\ req' = [op |-> "read_resource", uri |-> uri]
    /\ res' = ReadResourceResult(uri, df)
    /\ lib' = NoLib
    /\ UNCHANGED <<df, phase>>

HandleListPrompts ==
    /\ CanCall
    /\ req' = [op |-> "list_prompts"]
    /\ res' = ListPromptsResult
    /\ lib' = NoLib
    /\ UNCHANGED <<df, phase>>

HandleGetPrompt ==
    /\ CanCall
    /\ req' = [op |-> "get_prompt"]
    /\ res' = GetPromptResult
    /\ lib' = NoLib
    /\ UNCHANGED <<df, phase>>

HandleListTools ==
    /\ CanCall
    /\ req' = [op |-> "list_tools"]
    /\ res' = ListToolsResult
    /\ lib' = NoLib
    /\ UNCHANGED <<df, phase>>

\* the value of df once handle_call_tool is over: it never assigns it
DfAfterCallTool_Truncating(d) ==
    IF d.bound THEN BoundDf([d.table EXCEPT !.nrows = 0]) ELSE d

DfAfterCallTool(d) == d

HandleCallTool(name, args, rendered) ==
    /\ CanCall
    /\ LET r == CallToolResult(name, args, df, rendered) IN
        /\ res' = r.res
        /\ lib' = r.lib
    /\ req' = [op |-> "call_tool", name |-> name, args |-> args]
    /\ df' = DfAfterCallTool(df)
    /\ UNCHANGED phase

\* The caller takes the result; the next call can be made.
Deliver ==
    /\ phase \in {"serving", "imported"}
    /\ req # Idle
    /\ req' = Idle
    /\ res' = NoResult
    /\ lib' = NoLib
    /\ UNCHANGED <<df, phase>>

\* The guards stand before the quantifiers so that the inputs are enumerated
\* only where the call can be made.
Next ==
    \/ phase = "boot" /\ \E i \in LoadInputs : MainLoad(i)
    \/ MainServe
    \/ Import
    \/ phase = "imported" /\ req = Idle /\ \E i \in LoadInputs : LoadData(i)
    \/ HandleListResources
    \/ CanCall /\ \E uri \in Uris : HandleReadResource(uri)
    \/ HandleListPrompts
    \/ HandleGetPrompt
    \/ HandleListTools
    \/ CanCall /\ \E name \in ToolNames, args \in Arguments :
                      \E rendered \in RenderAnswers(name, args, df) :
                          HandleCallTool(name, args, rendered)
    \/ Deliver

Spec == Init /\ [][Next]_vars

----------------------------------------------------------------------------
(* Properties *)

\* a list of exactly one Text item whose text starts with "Error: "
IsErrorResult(r) ==
    /\ r.kind = "return"
    /\ ~r.none
    /\ Len(r.items) = 1
    /\ r.items[1].type = "text"
    /\ StartsWith(r.items[1].text, "Error: ")

NoImage(r) == \A i \in DOMAIN r.items : r.items[i].type # "image"

\* the call answered is call_tool(name, a non-empty dict)
CalledWithArguments(name) ==
    /\ req.op = "call_tool"
    /\ req.name = name
    /\ req.args.present
    /\ DOMAIN req.args.map # {}

Supplied(key) == key \in DOMAIN req.args.map

\* C1: call_tool with a name other than "plot" and "average" and a non-empty
\* arguments mapping returns exactly one Text item starting with "Error: ".
C1_UnknownToolIsError ==
    \A name \in ToolNames \ {"plot", "average"} :
        CalledWithArguments(name) => IsErrorResult(res)

\* C2: call_tool with a non-empty arguments mapping that lacks the tool's
\* required parameter ("kind" for plot, "column" for average) returns
\* exactly one Text item starting with "Error: " and no Image item.
C2_MissingRequiredIsError ==
    /\ (CalledWithArguments("plot") /\ ~Supplied("kind")) =>
           (IsErrorResult(res) /\ NoImage(res))
    /\ (CalledWithArguments("average") /\ ~Supplied("column")) =>
           (IsErrorResult(res) /\ NoImage(res))

\* C3: for plot with a kind in {bar, line, scatter} on a loaded table, a call
\* that supplies x and/or y with a supplied value that is not a column
\* returns exactly one Text item starting with "Error: " and no Image item;
\* a call that supplies both as columns succeeds. The second half is stated
\* for the calls whose rendering does not raise, which only weakens it: a
\* state that violates this formula violates the claim through its first
\* half, the column check.
C3_UnknownColumnIsError ==
    (df.bound /\ CalledWithArguments("plot") /\ Supplied("kind")
        /\ req.args.map["kind"] \in {"bar", "line", "scatter"}) =>
        /\ (\E k \in {"x", "y"} :
               Supplied(k) /\ req.args.map[k] \notin Range(df.table.columns)) =>
               (IsErrorResult(res) /\ NoImage(res))
        /\ (Supplied("x") /\ Supplied("y")
               /\ req.args.map["x"] \in Range(df.table.columns)
               /\ req.args.map["y"] \in Range(df.table.columns)
               /\ lib.fn = "plot" /\ lib.ok) =>
               (Len(res.items) = 2 /\ res.items[2].type = "image")

\* base64 decoding, for reading back what an Image item carries
B64Index(c) == FindFrom(B64Chars, c, 1) - 1

RECURSIVE B64Decode(_)
B64Decode(s) ==
    IF s = "" THEN <<>>
    ELSE IF Len(s) < 4 THEN <<-1>>
    ELSE LET a == B64Index(Char(s, 1))
             b == B64Index(Char(s, 2))
             c == B64Index(Char(s, 3))
             d == B64Index(Char(s, 4))
             b1 == a * 4 + b \div 16
             b2 == (b % 16) * 16 + c \div 4
             b3 == (c % 4) * 64 + d
         IN IF SubSeq(s, 3, 4) = "==" THEN <<b1>>
            ELSE IF Char(s, 4) = "=" THEN <<b1, b2>>
            ELSE <<b1, b2, b3>> \o B64Decode(SubSeq(s, 5, Len(s)))

\* the decoding of each text an Image item can carry (computed once per text)
B64Decoded == [s \in {B64Encoded[b] : b \in PngOutputs} |-> B64Decode(s)]

\* C4: a plot call with a kind in {bar, line, scatter} whose rendering does
\* not raise returns exactly two items: the Text "Generated {kind} plot" with
\* the requested kind, then an Image of media type image/png whose data is
\* the base64 encoding of the rendered bytes (it decodes back to them, and
\* starts as every base64 PNG does); a kind outside the set yields no Image.
C4_PlotResult ==
    (CalledWithArguments("plot") /\ Supplied("kind")) =>
        LET kind == req.args.map["kind"] IN
        /\ (kind \in {"bar", "line", "scatter"} /\ lib.fn = "plot" /\ lib.ok) =>
               /\ res.kind = "return"
               /\ Len(res.items) = 2
               /\ res.items[1] = TextContent("Generated " \o kind \o " plot")
               /\ res.items[2].type = "image"
               /\ res.items[2].mimeType = "image/png"
               /\ res.items[2].data \in DOMAIN B64Decoded
               /\ B64Decoded[res.items[2].data] = lib.png
               /\ StartsWith(res.items[2].data, "iVBORw0KGg")
        /\ kind \notin {"bar", "line", "scatter"} => (NoImage(res) /\ lib.fn # "plot")

C4_Witness ==
    /\ CalledWithArguments("plot")
    /\ Supplied("kind")
    /\ req.args.map["kind"] = "scatter"
    /\ lib.fn = "plot"
    /\ lib.ok
    /\ Len(lib.png) = 10
    /\ Len(res.items) = 2

\* the texts "Average of {column}: {v}" with v within half a thousandth of
\* the exact mean num/den
NearestAverageTexts(column, num, den) ==
    LET q == (1000 * num) \div den IN
    {"Average of " \o column \o ": " \o FormatThousandths(k) :
        k \in {j \in {q, q + 1} :
                 /\ 2 * (1000 * num - j * den) <= den
                 /\ 2 * (j * den - 1000 * num) <= den}}

\* C5: average with a column argument on a loaded table: when the column is
\* a numeric column with at least one row, the result is exactly one Text
\* item "Average of {column}: {v}" with v the mean rounded to 3 fractional
\* digits (written as Python writes a float: -0.23 for -230 thousandths);
\* when it is not a column, exactly one Text item starting with "Error: ".
C5_AverageResult ==
    /\ FormatThousandths(-230) = "-0.23"
    /\ (df.bound /\ CalledWithArguments("average") /\ Supplied("column")) =>
        LET column == req.args.map["column"]
            t == df.table
        IN /\ column \notin Range(t.columns) => IsErrorResult(res)
           /\ (column \in Range(t.columns) /\ t.cols[column].dtype = "float64"
                  /\ t.nrows > 0) =>
                  /\ res.kind = "return"
                  /\ Len(res.items) = 1
                  /\ res.items[1].type = "text"
                  /\ res.items[1].text \in
                         NearestAverageTexts(column, SeqSum(t.cols[column].vals), 16 * t.nrows)

C5_Witness ==
    /\ df.bound
    /\ CalledWithArguments("average")
    /\ Supplied("column")
    /\ req.args.map["column"] = "A"
    /\ "A" \in Range(df.table.columns)
    /\ df.table.cols["A"].vals = <<1, 2>>
    /\ res.items = <<TextContent("Average of A: 0.094")>>

\* C6: call_tool with absent (None) or empty arguments returns exactly one
\* Text item starting with "Error: ", for every name and whether or not a
\* table is loaded: the same item whatever the name and the table, and no
\* library call is made.
C6_EmptyArgumentsIsError ==
    (req.op = "call_tool" /\ (~req.args.present \/ DOMAIN req.args.map = {})) =>
        /\ IsErrorResult(res)
        /\ res.items[1].text = "Error: Missing arguments"
        /\ lib = NoLib

C6_Witness ==
    /\ df.bound
    /\ "A" \in Range(df.table.columns)
    /\ req.op = "call_tool"
    /\ req.name = "plot"
    /\ req.args.present
    /\ DOMAIN req.args.map = {}
    /\ IsErrorResult(res)

\* C7: with a table of shape (R, C) loaded, read_resource raises the
\* unsupported-scheme error for a scheme other than "memo" (checked first),
\* raises the unknown-resource error for scheme "memo" and a rest other than
\* exactly "shape", and returns "(R, C)" for memo://shape; the failures are
\* raised, not returned as a Text item.
C7_ReadResource ==
    (df.bound /\ req.op = "read_resource") =>
        LET u == req.uri IN
        /\ u.scheme # "memo" =>
               /\ res.kind = "raise"
               /\ res.msg = "Unsupported URI scheme: " \o u.scheme
               /\ res.items = <<>>
        /\ (u.scheme = "memo" /\ u.host \o u.path # "shape") =>
               /\ res.kind = "raise"
               /\ StartsWith(res.msg, "Unknown resource path: ")
               /\ res.items = <<>>
        /\ (u.scheme = "memo" /\ u.host \o u.path = "shape") =>
               /\ res.kind = "return"
               /\ res.text = "(" \o ToString(df.table.nrows) \o ", "
                                 \o ToString(Len(df.table.columns)) \o ")"

C7_Witness ==
    /\ df.bound
    /\ df.table.nrows = 2
    /\ Len(df.table.columns) = 2
    /\ req.op = "read_resource"
    /\ req.uri = [scheme |-> "memo", host |-> "shape", path |-> ""]
    /\ res.text = "(2, 2)"

\* the reader a path selects when its extension is compared without regard
\* to letter case ("" for none)
EndsWithNoCase(s, e) ==
    /\ Len(s) > Len(e)
    /\ Lower(SubSeq(s, Len(s) - Len(e) + 1, Len(s))) = e
    /\ Char(s, Len(s) - Len(e)) # "/"

ReaderByExtension(p) ==
    IF EndsWithNoCase(p, ".csv") THEN "read_csv"
    ELSE IF EndsWithNoCase(p, ".json") THEN "read_json"
    ELSE IF EndsWithNoCase(p, ".xls") \/ EndsWithNoCase(p, ".xlsx") THEN "read_excel"
    ELSE ""

ReaderOf == [p \in DataPaths |-> ReaderByExtension(p)]

StartupFails ==
    \/ ~req.path.some
    \/ ReaderOf[req.path.s] = ""
    \/ (lib.fn # "none" /\ ~lib.ok)

\* C8: in a run of main the stdio loop starts only after load_data has
\* returned: when the data path is absent, has an unsupported extension or
\* the reader raises, the process aborts with that error, having served no
\* request and bound no table; while serving, the table is bound.
C8_ServeOnlyAfterLoad ==
    /\ phase \in {"loaded", "serving"} => df.bound
    /\ (req.op = "main" /\ StartupFails) => (phase = "aborted" /\ res.kind = "raise")
    /\ phase = "aborted" => (req.op = "main" /\ res.kind = "raise" /\ ~df.bound)

C8_Witness ==
    /\ phase = "aborted"
    /\ req.op = "main"
    /\ req.path = Some("d.csv")
    /\ lib = LibCall("read_csv", FALSE, <<>>)

\* C9: once a table is loaded, no list_resources, read_resource, list_tools,
\* list_prompts, get_prompt or call_tool request changes it, whether the
\* request succeeds or fails: a step changes df only when it is a load that
\* returns.
C9_OnlyLoadAssigns ==
    [][df' # df => (req'.op \in {"main", "load_data"} /\ res'.kind = "return")]_vars

C9_Witness ==
    /\ df.bound
    /\ df.table.nrows = 2
    /\ req.op = "call_tool"
    /\ req.name = "average"
    /\ lib = LibCall("mean", TRUE, <<>>)

\* a table as a reader returns it: every column holds nrows cells
WholeTable(t) ==
    /\ DOMAIN t.cols = Range(t.columns)
    /\ \A c \in Range(t.columns) : Len(t.cols[c].vals) = t.nrows

\* C10: load_data selects the reader from the path's extension compared
\* case-insensitively; a load that fails (no reader for the extension, or the
\* reader raises) leaves df as it was, and a load that returns binds df in
\* that one step to a whole table.
C10_LoadAllOrNothing ==
    [][req'.op \in {"main", "load_data"} =>
          /\ req'.path.some =>
                 LET reader == ReaderOf[req'.path.s] IN
                 /\ reader = "" => (lib' = NoLib /\ res'.kind = "raise")
                 /\ reader # "" => lib'.fn = reader
          /\ (lib'.fn = "none" \/ ~lib'.ok) => res'.kind = "raise"
          /\ res'.kind = "raise" => df' = df
          /\ res'.kind = "return" =>
                 (lib'.ok /\ df'.bound /\ WholeTable(df'.table))]_vars

C10_Witness ==
    /\ req.op = "load_data"
    /\ req.path = Some("D.CSV")
    /\ lib = LibCall("read_csv", FALSE, <<>>)
    /\ res.kind = "raise"
    /\ df.bound
    /\ df.table.nrows = 2

====
